---- MODULE Spec2Model ----
(***************************************************************************)
(* Validation layer of backend/app/models/recipe.py (pydantic v2 models).  *)
(* Strings are sequences of one-character strings.  Each action is one    *)
(* construction of a model from a payload: the state records which class  *)
(* was constructed, the payload, and the outcome (the normalized object or *)
(* the aggregated ValidationError, one entry per failing field).           *)
(***************************************************************************)
EXTENDS Integers, Sequences, FiniteSets, TLC

VARIABLES cls, input, result

vars == <<cls, input, result>>

\* Optional[...] values: None, or Some(x) for a supplied x
None == <<>>

Some(x) == <<x>>

\* cls before any construction
NoModel == "none"

(***************************************************************************)
(* Characters and str methods.  A character is its Unicode code point and *)
(* a str is a sequence of code points.  The tables below are the Unicode  *)
(* data of CPython's str methods (Unicode 14, CPython 3.11).              *)
(***************************************************************************)
\* Code points for which str.isspace() holds; str.strip() removes them
WS == {9, 10, 11, 12, 13, 28, 29, 30, 31, 32, 133, 160, 5760, 8192, 8193, 8194, 8195, 8196, 8197, 8198, 8199, 8200, 8201, 8202, 8232, 8233, 8239, 8287, 12288}

IsWS(c) == c \in WS

\* str.lower() on characters with a one-character lower case, as runs
\* <<first, last, step, delta>>: c in first..last stepping by step lowers to
\* c + delta
LowerRuns == <<
  <<65, 90, 1, 32>>, <<192, 214, 1, 32>>, <<216, 222, 1, 32>>, <<256, 302, 2, 1>>,
  <<306, 310, 2, 1>>, <<313, 327, 2, 1>>, <<330, 374, 2, 1>>, <<376, 376, 1, -121>>,
  <<377, 381, 2, 1>>, <<385, 385, 1, 210>>, <<386, 388, 2, 1>>, <<390, 390, 1, 206>>,
  <<391, 391, 1, 1>>, <<393, 394, 1, 205>>, <<395, 395, 1, 1>>, <<398, 398, 1, 79>>,
  <<399, 399, 1, 202>>, <<400, 400, 1, 203>>, <<401, 401, 1, 1>>, <<403, 403, 1, 205>>,
  <<404, 404, 1, 207>>, <<406, 406, 1, 211>>, <<407, 407, 1, 209>>, <<408, 408, 1, 1>>,
  <<412, 412, 1, 211>>, <<413, 413, 1, 213>>, <<415, 415, 1, 214>>, <<416, 420, 2, 1>>,
  <<422, 422, 1, 218>>, <<423, 423, 1, 1>>, <<425, 425, 1, 218>>, <<428, 428, 1, 1>>,
  <<430, 430, 1, 218>>, <<431, 431, 1, 1>>, <<433, 434, 1, 217>>, <<435, 437, 2, 1>>,
  <<439, 439, 1, 219>>, <<440, 440, 1, 1>>, <<444, 444, 1, 1>>, <<452, 452, 1, 2>>,
  <<453, 453, 1, 1>>, <<455, 455, 1, 2>>, <<456, 456, 1, 1>>, <<458, 458, 1, 2>>,
  <<459, 475, 2, 1>>, <<478, 494, 2, 1>>, <<497, 497, 1, 2>>, <<498, 500, 2, 1>>,
  <<502, 502, 1, -97>>, <<503, 503, 1, -56>>, <<504, 542, 2, 1>>, <<544, 544, 1, -130>>,
  <<546, 562, 2, 1>>, <<570, 570, 1, 10795>>, <<571, 571, 1, 1>>, <<573, 573, 1, -163>>,
  <<574, 574, 1, 10792>>, <<577, 577, 1, 1>>, <<579, 579, 1, -195>>, <<580, 580, 1, 69>>,
  <<581, 581, 1, 71>>, <<582, 590, 2, 1>>, <<880, 882, 2, 1>>, <<886, 886, 1, 1>>,
  <<895, 895, 1, 116>>, <<902, 902, 1, 38>>, <<904, 906, 1, 37>>, <<908, 908, 1, 64>>,
  <<910, 911, 1, 63>>, <<913, 929, 1, 32>>, <<932, 939, 1, 32>>, <<975, 975, 1, 8>>,
  <<984, 1006, 2, 1>>, <<1012, 1012, 1, -60>>, <<1015, 1015, 1, 1>>, <<1017, 1017, 1, -7>>,
  <<1018, 1018, 1, 1>>, <<1021, 1023, 1, -130>>, <<1024, 1039, 1, 80>>, <<1040, 1071, 1, 32>>,
  <<1120, 1152, 2, 1>>, <<1162, 1214, 2, 1>>, <<1216, 1216, 1, 15>>, <<1217, 1229, 2, 1>>,
  <<1232, 1326, 2, 1>>, <<1329, 1366, 1, 48>>, <<4256, 4293, 1, 7264>>, <<4295, 4295, 1, 7264>>,
  <<4301, 4301, 1, 7264>>, <<5024, 5103, 1, 38864>>, <<5104, 5109, 1, 8>>, <<7312, 7354, 1, -3008>>,
  <<7357, 7359, 1, -3008>>, <<7680, 7828, 2, 1>>, <<7838, 7838, 1, -7615>>, <<7840, 7934, 2, 1>>,
  <<7944, 7951, 1, -8>>, <<7960, 7965, 1, -8>>, <<7976, 7983, 1, -8>>, <<7992, 7999, 1, -8>>,
  <<8008, 8013, 1, -8>>, <<8025, 8031, 2, -8>>, <<8040, 8047, 1, -8>>, <<8072, 8079, 1, -8>>,
  <<8088, 8095, 1, -8>>, <<8104, 8111, 1, -8>>, <<8120, 8121, 1, -8>>, <<8122, 8123, 1, -74>>,
  <<8124, 8124, 1, -9>>, <<8136, 8139, 1, -86>>, <<8140, 8140, 1, -9>>, <<8152, 8153, 1, -8>>,
  <<8154, 8155, 1, -100>>, <<8168, 8169, 1, -8>>, <<8170, 8171, 1, -112>>, <<8172, 8172, 1, -7>>,
  <<8184, 8185, 1, -128>>, <<8186, 8187, 1, -126>>, <<8188, 8188, 1, -9>>, <<8486, 8486, 1, -7517>>,
  <<8490, 8490, 1, -8383>>, <<8491, 8491, 1, -8262>>, <<8498, 8498, 1, 28>>, <<8544, 8559, 1, 16>>,
  <<8579, 8579, 1, 1>>, <<9398, 9423, 1, 26>>, <<11264, 11311, 1, 48>>, <<11360, 11360, 1, 1>>,
  <<11362, 11362, 1, -10743>>, <<11363, 11363, 1, -3814>>, <<11364, 11364, 1, -10727>>, <<11367, 11371, 2, 1>>,
  <<11373, 11373, 1, -10780>>, <<11374, 11374, 1, -10749>>, <<11375, 11375, 1, -10783>>, <<11376, 11376, 1, -10782>>,
  <<11378, 11378, 1, 1>>, <<11381, 11381, 1, 1>>, <<11390, 11391, 1, -10815>>, <<11392, 11490, 2, 1>>,
  <<11499, 11501, 2, 1>>, <<11506, 11506, 1, 1>>, <<42560, 42604, 2, 1>>, <<42624, 42650, 2, 1>>,
  <<42786, 42798, 2, 1>>, <<42802, 42862, 2, 1>>, <<42873, 42875, 2, 1>>, <<42877, 42877, 1, -35332>>,
  <<42878, 42886, 2, 1>>, <<42891, 42891, 1, 1>>, <<42893, 42893, 1, -42280>>, <<42896, 42898, 2, 1>>,
  <<42902, 42920, 2, 1>>, <<42922, 42922, 1, -42308>>, <<42923, 42923, 1, -42319>>, <<42924, 42924, 1, -42315>>,
  <<42925, 42925, 1, -42305>>, <<42926, 42926, 1, -42308>>, <<42928, 42928, 1, -42258>>, <<42929, 42929, 1, -42282>>,
  <<42930, 42930, 1, -42261>>, <<42931, 42931, 1, 928>>, <<42932, 42946, 2, 1>>, <<42948, 42948, 1, -48>>,
  <<42949, 42949, 1, -42307>>, <<42950, 42950, 1, -35384>>, <<42951, 42953, 2, 1>>, <<42960, 42960, 1, 1>>,
  <<42966, 42968, 2, 1>>, <<42997, 42997, 1, 1>>, <<65313, 65338, 1, 32>>, <<66560, 66599, 1, 40>>,
  <<66736, 66771, 1, 40>>, <<66928, 66938, 1, 39>>, <<66940, 66954, 1, 39>>, <<66956, 66962, 1, 39>>,
  <<66964, 66965, 1, 39>>, <<68736, 68786, 1, 64>>, <<71840, 71871, 1, 32>>, <<93760, 93791, 1, 32>>,
  <<125184, 125217, 1, 34>>
>>

LowerSingle ==
  LET dom == UNION {{LowerRuns[r][1] + LowerRuns[r][3] * k :
                       k \in 0..((LowerRuns[r][2] - LowerRuns[r][1]) \div LowerRuns[r][3])} :
                    r \in 1..Len(LowerRuns)}
      run(c) == CHOOSE r \in 1..Len(LowerRuns) :
                  /\ LowerRuns[r][1] <= c /\ c <= LowerRuns[r][2]
                  /\ (c - LowerRuns[r][1]) % LowerRuns[r][3] = 0
  IN [c \in dom |-> c + LowerRuns[run(c)][4]]

\* U+0130 lowers to two characters
LowerMulti == [c \in {304} |-> <<105, 775>>]

\* Ranges of the Cased and Case_Ignorable properties (used by final sigma)
CasedRanges == <<
  <<65, 90>>, <<97, 122>>, <<170, 170>>, <<181, 181>>, <<186, 186>>, <<192, 214>>, <<216, 246>>, <<248, 442>>,
  <<444, 447>>, <<452, 659>>, <<661, 696>>, <<704, 705>>, <<736, 740>>, <<837, 837>>, <<880, 883>>, <<886, 887>>,
  <<890, 893>>, <<895, 895>>, <<902, 902>>, <<904, 906>>, <<908, 908>>, <<910, 929>>, <<931, 1013>>, <<1015, 1153>>,
  <<1162, 1327>>, <<1329, 1366>>, <<1376, 1416>>, <<4256, 4293>>, <<4295, 4295>>, <<4301, 4301>>, <<4304, 4346>>, <<4349, 4351>>,
  <<5024, 5109>>, <<5112, 5117>>, <<7296, 7304>>, <<7312, 7354>>, <<7357, 7359>>, <<7424, 7615>>, <<7680, 7957>>, <<7960, 7965>>,
  <<7968, 8005>>, <<8008, 8013>>, <<8016, 8023>>, <<8025, 8025>>, <<8027, 8027>>, <<8029, 8029>>, <<8031, 8061>>, <<8064, 8116>>,
  <<8118, 8124>>, <<8126, 8126>>, <<8130, 8132>>, <<8134, 8140>>, <<8144, 8147>>, <<8150, 8155>>, <<8160, 8172>>, <<8178, 8180>>,
  <<8182, 8188>>, <<8305, 8305>>, <<8319, 8319>>, <<8336, 8348>>, <<8450, 8450>>, <<8455, 8455>>, <<8458, 8467>>, <<8469, 8469>>,
  <<8473, 8477>>, <<8484, 8484>>, <<8486, 8486>>, <<8488, 8488>>, <<8490, 8493>>, <<8495, 8500>>, <<8505, 8505>>, <<8508, 8511>>,
  <<8517, 8521>>, <<8526, 8526>>, <<8544, 8575>>, <<8579, 8580>>, <<9398, 9449>>, <<11264, 11492>>, <<11499, 11502>>, <<11506, 11507>>,
  <<11520, 11557>>, <<11559, 11559>>, <<11565, 11565>>, <<42560, 42605>>, <<42624, 42653>>, <<42786, 42887>>, <<42891, 42894>>, <<42896, 42954>>,
  <<42960, 42961>>, <<42963, 42963>>, <<42965, 42969>>, <<42997, 42998>>, <<43000, 43002>>, <<43824, 43866>>, <<43868, 43880>>, <<43888, 43967>>,
  <<64256, 64262>>, <<64275, 64279>>, <<65313, 65338>>, <<65345, 65370>>, <<66560, 66639>>, <<66736, 66771>>, <<66776, 66811>>, <<66928, 66938>>,
  <<66940, 66954>>, <<66956, 66962>>, <<66964, 66965>>, <<66967, 66977>>, <<66979, 66993>>, <<66995, 67001>>, <<67003, 67004>>, <<67456, 67456>>,
  <<67459, 67461>>, <<67463, 67504>>, <<67506, 67514>>, <<68736, 68786>>, <<68800, 68850>>, <<71840, 71903>>, <<93760, 93823>>, <<119808, 119892>>,
  <<119894, 119964>>, <<119966, 119967>>, <<119970, 119970>>, <<119973, 119974>>, <<119977, 119980>>, <<119982, 119993>>, <<119995, 119995>>, <<119997, 120003>>,
  <<120005, 120069>>, <<120071, 120074>>, <<120077, 120084>>, <<120086, 120092>>, <<120094, 120121>>, <<120123, 120126>>, <<120128, 120132>>, <<120134, 120134>>,
  <<120138, 120144>>, <<120146, 120485>>, <<120488, 120512>>, <<120514, 120538>>, <<120540, 120570>>, <<120572, 120596>>, <<120598, 120628>>, <<120630, 120654>>,
  <<120656, 120686>>, <<120688, 120712>>, <<120714, 120744>>, <<120746, 120770>>, <<120772, 120779>>, <<122624, 122633>>, <<122635, 122654>>, <<125184, 125251>>,
  <<127280, 127305>>, <<127312, 127337>>, <<127344, 127369>>
>>

CaseIgnorableRanges == <<
  <<39, 39>>, <<46, 46>>, <<58, 58>>, <<94, 94>>, <<96, 96>>, <<168, 168>>, <<173, 173>>, <<175, 175>>,
  <<180, 180>>, <<183, 184>>, <<688, 879>>, <<884, 885>>, <<890, 890>>, <<900, 901>>, <<903, 903>>, <<1155, 1161>>,
  <<1369, 1369>>, <<1375, 1375>>, <<1425, 1469>>, <<1471, 1471>>, <<1473, 1474>>, <<1476, 1477>>, <<1479, 1479>>, <<1524, 1524>>,
  <<1536, 1541>>, <<1552, 1562>>, <<1564, 1564>>, <<1600, 1600>>, <<1611, 1631>>, <<1648, 1648>>, <<1750, 1757>>, <<1759, 1768>>,
  <<1770, 1773>>, <<1807, 1807>>, <<1809, 1809>>, <<1840, 1866>>, <<1958, 1968>>, <<2027, 2037>>, <<2042, 2042>>, <<2045, 2045>>,
  <<2070, 2093>>, <<2137, 2139>>, <<2184, 2184>>, <<2192, 2193>>, <<2200, 2207>>, <<2249, 2306>>, <<2362, 2362>>, <<2364, 2364>>,
  <<2369, 2376>>, <<2381, 2381>>, <<2385, 2391>>, <<2402, 2403>>, <<2417, 2417>>, <<2433, 2433>>, <<2492, 2492>>, <<2497, 2500>>,
  <<2509, 2509>>, <<2530, 2531>>, <<2558, 2558>>, <<2561, 2562>>, <<2620, 2620>>, <<2625, 2626>>, <<2631, 2632>>, <<2635, 2637>>,
  <<2641, 2641>>, <<2672, 2673>>, <<2677, 2677>>, <<2689, 2690>>, <<2748, 2748>>, <<2753, 2757>>, <<2759, 2760>>, <<2765, 2765>>,
  <<2786, 2787>>, <<2810, 2815>>, <<2817, 2817>>, <<2876, 2876>>, <<2879, 2879>>, <<2881, 2884>>, <<2893, 2893>>, <<2901, 2902>>,
  <<2914, 2915>>, <<2946, 2946>>, <<3008, 3008>>, <<3021, 3021>>, <<3072, 3072>>, <<3076, 3076>>, <<3132, 3132>>, <<3134, 3136>>,
  <<3142, 3144>>, <<3146, 3149>>, <<3157, 3158>>, <<3170, 3171>>, <<3201, 3201>>, <<3260, 3260>>, <<3263, 3263>>, <<3270, 3270>>,
  <<3276, 3277>>, <<3298, 3299>>, <<3328, 3329>>, <<3387, 3388>>, <<3393, 3396>>, <<3405, 3405>>, <<3426, 3427>>, <<3457, 3457>>,
  <<3530, 3530>>, <<3538, 3540>>, <<3542, 3542>>, <<3633, 3633>>, <<3636, 3642>>, <<3654, 3662>>, <<3761, 3761>>, <<3764, 3772>>,
  <<3782, 3782>>, <<3784, 3789>>, <<3864, 3865>>, <<3893, 3893>>, <<3895, 3895>>, <<3897, 3897>>, <<3953, 3966>>, <<3968, 3972>>,
  <<3974, 3975>>, <<3981, 3991>>, <<3993, 4028>>, <<4038, 4038>>, <<4141, 4144>>, <<4146, 4151>>, <<4153, 4154>>, <<4157, 4158>>,
  <<4184, 4185>>, <<4190, 4192>>, <<4209, 4212>>, <<4226, 4226>>, <<4229, 4230>>, <<4237, 4237>>, <<4253, 4253>>, <<4348, 4348>>,
  <<4957, 4959>>, <<5906, 5908>>, <<5938, 5939>>, <<5970, 5971>>, <<6002, 6003>>, <<6068, 6069>>, <<6071, 6077>>, <<6086, 6086>>,
  <<6089, 6099>>, <<6103, 6103>>, <<6109, 6109>>, <<6155, 6159>>, <<6211, 6211>>, <<6277, 6278>>, <<6313, 6313>>, <<6432, 6434>>,
  <<6439, 6440>>, <<6450, 6450>>, <<6457, 6459>>, <<6679, 6680>>, <<6683, 6683>>, <<6742, 6742>>, <<6744, 6750>>, <<6752, 6752>>,
  <<6754, 6754>>, <<6757, 6764>>, <<6771, 6780>>, <<6783, 6783>>, <<6823, 6823>>, <<6832, 6862>>, <<6912, 6915>>, <<6964, 6964>>,
  <<6966, 6970>>, <<6972, 6972>>, <<6978, 6978>>, <<7019, 7027>>, <<7040, 7041>>, <<7074, 7077>>, <<7080, 7081>>, <<7083, 7085>>,
  <<7142, 7142>>, <<7144, 7145>>, <<7149, 7149>>, <<7151, 7153>>, <<7212, 7219>>, <<7222, 7223>>, <<7288, 7293>>, <<7376, 7378>>,
  <<7380, 7392>>, <<7394, 7400>>, <<7405, 7405>>, <<7412, 7412>>, <<7416, 7417>>, <<7468, 7530>>, <<7544, 7544>>, <<7579, 7679>>,
  <<8125, 8125>>, <<8127, 8129>>, <<8141, 8143>>, <<8157, 8159>>, <<8173, 8175>>, <<8189, 8190>>, <<8203, 8207>>, <<8216, 8217>>,
  <<8228, 8228>>, <<8231, 8231>>, <<8234, 8238>>, <<8288, 8292>>, <<8294, 8303>>, <<8305, 8305>>, <<8319, 8319>>, <<8336, 8348>>,
  <<8400, 8432>>, <<11388, 11389>>, <<11503, 11505>>, <<11631, 11631>>, <<11647, 11647>>, <<11744, 11775>>, <<11823, 11823>>, <<12293, 12293>>,
  <<12330, 12333>>, <<12337, 12341>>, <<12347, 12347>>, <<12441, 12446>>, <<12540, 12542>>, <<40981, 40981>>, <<42232, 42237>>, <<42508, 42508>>,
  <<42607, 42610>>, <<42612, 42621>>, <<42623, 42623>>, <<42652, 42655>>, <<42736, 42737>>, <<42752, 42785>>, <<42864, 42864>>, <<42888, 42890>>,
  <<42994, 42996>>, <<43000, 43001>>, <<43010, 43010>>, <<43014, 43014>>, <<43019, 43019>>, <<43045, 43046>>, <<43052, 43052>>, <<43204, 43205>>,
  <<43232, 43249>>, <<43263, 43263>>, <<43302, 43309>>, <<43335, 43345>>, <<43392, 43394>>, <<43443, 43443>>, <<43446, 43449>>, <<43452, 43453>>,
  <<43471, 43471>>, <<43493, 43494>>, <<43561, 43566>>, <<43569, 43570>>, <<43573, 43574>>, <<43587, 43587>>, <<43596, 43596>>, <<43632, 43632>>,
  <<43644, 43644>>, <<43696, 43696>>, <<43698, 43700>>, <<43703, 43704>>, <<43710, 43711>>, <<43713, 43713>>, <<43741, 43741>>, <<43756, 43757>>,
  <<43763, 43764>>, <<43766, 43766>>, <<43867, 43871>>, <<43881, 43883>>, <<44005, 44005>>, <<44008, 44008>>, <<44013, 44013>>, <<64286, 64286>>,
  <<64434, 64450>>, <<65024, 65039>>, <<65043, 65043>>, <<65056, 65071>>, <<65106, 65106>>, <<65109, 65109>>, <<65279, 65279>>, <<65287, 65287>>,
  <<65294, 65294>>, <<65306, 65306>>, <<65342, 65342>>, <<65344, 65344>>, <<65392, 65392>>, <<65438, 65439>>, <<65507, 65507>>, <<65529, 65531>>,
  <<66045, 66045>>, <<66272, 66272>>, <<66422, 66426>>, <<67456, 67461>>, <<67463, 67504>>, <<67506, 67514>>, <<68097, 68099>>, <<68101, 68102>>,
  <<68108, 68111>>, <<68152, 68154>>, <<68159, 68159>>, <<68325, 68326>>, <<68900, 68903>>, <<69291, 69292>>, <<69446, 69456>>, <<69506, 69509>>,
  <<69633, 69633>>, <<69688, 69702>>, <<69744, 69744>>, <<69747, 69748>>, <<69759, 69761>>, <<69811, 69814>>, <<69817, 69818>>, <<69821, 69821>>,
  <<69826, 69826>>, <<69837, 69837>>, <<69888, 69890>>, <<69927, 69931>>, <<69933, 69940>>, <<70003, 70003>>, <<70016, 70017>>, <<70070, 70078>>,
  <<70089, 70092>>, <<70095, 70095>>, <<70191, 70193>>, <<70196, 70196>>, <<70198, 70199>>, <<70206, 70206>>, <<70367, 70367>>, <<70371, 70378>>,
  <<70400, 70401>>, <<70459, 70460>>, <<70464, 70464>>, <<70502, 70508>>, <<70512, 70516>>, <<70712, 70719>>, <<70722, 70724>>, <<70726, 70726>>,
  <<70750, 70750>>, <<70835, 70840>>, <<70842, 70842>>, <<70847, 70848>>, <<70850, 70851>>, <<71090, 71093>>, <<71100, 71101>>, <<71103, 71104>>,
  <<71132, 71133>>, <<71219, 71226>>, <<71229, 71229>>, <<71231, 71232>>, <<71339, 71339>>, <<71341, 71341>>, <<71344, 71349>>, <<71351, 71351>>,
  <<71453, 71455>>, <<71458, 71461>>, <<71463, 71467>>, <<71727, 71735>>, <<71737, 71738>>, <<71995, 71996>>, <<71998, 71998>>, <<72003, 72003>>,
  <<72148, 72151>>, <<72154, 72155>>, <<72160, 72160>>, <<72193, 72202>>, <<72243, 72248>>, <<72251, 72254>>, <<72263, 72263>>, <<72273, 72278>>,
  <<72281, 72283>>, <<72330, 72342>>, <<72344, 72345>>, <<72752, 72758>>, <<72760, 72765>>, <<72767, 72767>>, <<72850, 72871>>, <<72874, 72880>>,
  <<72882, 72883>>, <<72885, 72886>>, <<73009, 73014>>, <<73018, 73018>>, <<73020, 73021>>, <<73023, 73029>>, <<73031, 73031>>, <<73104, 73105>>,
  <<73109, 73109>>, <<73111, 73111>>, <<73459, 73460>>, <<78896, 78904>>, <<92912, 92916>>, <<92976, 92982>>, <<92992, 92995>>, <<94031, 94031>>,
  <<94095, 94111>>, <<94176, 94177>>, <<94179, 94180>>, <<110576, 110579>>, <<110581, 110587>>, <<110589, 110590>>, <<113821, 113822>>, <<113824, 113827>>,
  <<118528, 118573>>, <<118576, 118598>>, <<119143, 119145>>, <<119155, 119170>>, <<119173, 119179>>, <<119210, 119213>>, <<119362, 119364>>, <<121344, 121398>>,
  <<121403, 121452>>, <<121461, 121461>>, <<121476, 121476>>, <<121499, 121503>>, <<121505, 121519>>, <<122880, 122886>>, <<122888, 122904>>, <<122907, 122913>>,
  <<122915, 122916>>, <<122918, 122922>>, <<123184, 123197>>, <<123566, 123566>>, <<123628, 123631>>, <<125136, 125142>>, <<125252, 125259>>, <<127995, 127999>>,
  <<917505, 917505>>, <<917536, 917631>>, <<917760, 917999>>
>>

InRanges(c, R) == \E r \in 1..Len(R) : R[r][1] <= c /\ c <= R[r][2]

IsCased(c) == InRanges(c, CasedRanges)

IsCaseIgnorable(c) == InRanges(c, CaseIgnorableRanges)

CapitalSigma == 931

\* handle_capital_sigma: U+03A3 lowers to final sigma U+03C2 when preceded by
\* a cased character (skipping case-ignorable ones) and not followed by one
FinalSigma(s, i) ==
  LET before == {j \in 1..(i - 1) : ~IsCaseIgnorable(s[j])}
      after == {j \in (i + 1)..Len(s) : ~IsCaseIgnorable(s[j])}
      prev == CHOOSE j \in before : \A k \in before : k <= j
      next == CHOOSE j \in after : \A k \in after : j <= k
  IN /\ before # {}
     /\ IsCased(s[prev])
     /\ (after = {} \/ ~IsCased(s[next]))

\* Lower case of the character at position i of s
LowerAt(s, i) ==
  LET c == s[i] IN
  IF c = CapitalSigma THEN <<IF FinalSigma(s, i) THEN 962 ELSE 963>>
  ELSE IF c \in DOMAIN LowerMulti THEN LowerMulti[c]
  ELSE IF c \in DOMAIN LowerSingle THEN <<LowerSingle[c]>>
  ELSE <<c>>

RECURSIVE LowerFrom(_, _)
LowerFrom(s, i) == IF i > Len(s) THEN <<>> ELSE LowerAt(s, i) \o LowerFrom(s, i + 1)

\* str.lower()
Lower(s) == LowerFrom(s, 1)

\* str.strip(): drop leading and trailing whitespace
Strip(s) ==
  LET keep == {i \in 1..Len(s) : ~IsWS(s[i])}
      lo == CHOOSE i \in keep : \A j \in keep : i <= j
      hi == CHOOSE i \in keep : \A j \in keep : i >= j
  IN IF keep = {} THEN <<>> ELSE SubSeq(s, lo, hi)

\* Python string ordering: lexicographic on code points
RECURSIVE StrLeq(_, _)
StrLeq(a, b) ==
  IF a = <<>> THEN TRUE
  ELSE IF b = <<>> THEN FALSE
  ELSE IF Head(a) < Head(b) THEN TRUE
  ELSE IF Head(a) > Head(b) THEN FALSE
  ELSE StrLeq(Tail(a), Tail(b))

\* sorted(S) for a set of strings
RECURSIVE Sorted(_)
Sorted(S) ==
  IF S = {} THEN <<>>
  ELSE LET m == CHOOSE x \in S : \A y \in S : StrLeq(x, y)
       IN <<m>> \o Sorted(S \ {m})

Rep(c, n) == [i \in 1..n |-> c]

\* [f(x) for x in s if p(x)] helpers
FilterSeq(s, P(_)) ==
  LET idx == {i \in 1..Len(s) : P(s[i])}
      n == Cardinality(idx)
      \* k-th selected index
      Pos(k) == CHOOSE i \in idx : Cardinality({j \in idx : j <= i}) = k
  IN [k \in 1..n |-> s[Pos(k)]]

MapSeq(s, F(_)) == [i \in 1..Len(s) |-> F(s[i])]

(***************************************************************************)
(* Errors: one record per failing field, as pydantic's ValidationError     *)
(***************************************************************************)
NoVal == <<>>

Err(loc, type, text) == [loc |-> loc, type |-> type, text |-> text,
                         value |-> NoVal, valid |-> <<>>]

\* Outcome of constructing a model: an object or the list of field errors
Ok(obj) == [ok |-> TRUE, obj |-> obj, errors |-> {}]
Fail(errs) == [ok |-> FALSE, obj |-> None, errors |-> errs]

\* Outcome of validating one field: value or set of errors (empty = valid)
FOk(v) == [val |-> v, errs |-> {}]
FErr(e) == [val |-> None, errs |-> {e}]

(***************************************************************************)
(* recipe_name: Field(..., min_length=1, max_length=200) then the after   *)
(* field_validator (validate_recipe_name / validate_recipe_name_full).     *)
(***************************************************************************)
RecipeNameMinLength == 1
RecipeNameMaxLength == 200

\* Variant returning the name unstripped
ValidateRecipeNameNoStrip(v) ==
  IF v = <<>> \/ Strip(v) = <<>>
  THEN FErr(Err("recipe_name", "value_error", "Recipe name cannot be empty"))
  ELSE FOk(v)

\* validate_recipe_name: raise if not v or not v.strip(), else v.strip()
ValidateRecipeName(v) ==
  IF v = <<>> \/ Strip(v) = <<>>
  THEN FErr(Err("recipe_name", "value_error", "Recipe name cannot be empty"))
  ELSE FOk(Strip(v))

\* The str schema constraints run before the after-validator
RecipeNameField(v) ==
  IF Len(v) < RecipeNameMinLength
  THEN FErr(Err("recipe_name", "string_too_short", "String should have at least 1 character"))
  ELSE IF Len(v) > RecipeNameMaxLength
  THEN FErr(Err("recipe_name", "string_too_long", "String should have at most 200 characters"))
  ELSE ValidateRecipeName(v)


(***************************************************************************)
(* FullAnalysisRequest list validators                                     *)
(***************************************************************************)
\* Variant keeping blank entries
ValidateIngredientsKeepBlank(v) ==
  IF v = None THEN FOk(None)
  ELSE LET w == MapSeq(v[1], Strip)
       IN IF Len(w) = 0
          THEN FErr(Err("ingredients", "value_error", "Ingredients list cannot be empty if provided"))
          ELSE FOk(Some(w))

\* validate_ingredients: [ing.strip() for ing in v if ing.strip()], then
\* reject an empty result
ValidateIngredients(v) ==
  IF v = None THEN FOk(None)
  ELSE LET w == MapSeq(FilterSeq(v[1], LAMBDA x : Strip(x) # <<>>), Strip)
       IN IF Len(w) = 0
          THEN FErr(Err("ingredients", "value_error", "Ingredients list cannot be empty if provided"))
          ELSE FOk(Some(w))

\* valid_allergens in validate_allergens
ValidAllergens == {<<109, 105, 108, 107>>,
                   <<101, 103, 103, 115>>,
                   <<112, 101, 97, 110, 117, 116, 115>>,
                   <<116, 114, 101, 101, 95, 110, 117, 116, 115>>,
                   <<115, 111, 121>>,
                   <<119, 104, 101, 97, 116>>,
                   <<102, 105, 115, 104>>,
                   <<115, 104, 101, 108, 108, 102, 105, 115, 104>>}
\* milk, eggs, peanuts, tree_nuts, soy, wheat, fish, shellfish

\* Variant without lower()
NormalizeAllergenNoLower(a) == Strip(a)

\* a.strip().lower()
NormalizeAllergen(a) == Lower(Strip(a))

\* Variant rejecting a list left empty by the blank filter
ValidateAllergensRejectEmpty(v) ==
  IF v = None THEN FOk(None)
  ELSE LET w == MapSeq(FilterSeq(v[1], LAMBDA x : Strip(x) # <<>>), NormalizeAllergen)
           bad == {i \in 1..Len(w) : w[i] \notin ValidAllergens}
           first == CHOOSE i \in bad : \A j \in bad : i <= j
       IN IF Len(w) = 0
          THEN FErr(Err("allergens", "value_error", "Allergens list cannot be empty if provided"))
          ELSE IF bad = {} THEN FOk(Some(w))
          ELSE FErr([loc |-> "allergens", type |-> "value_error",
                     text |-> "Invalid allergen", value |-> w[first],
                     valid |-> Sorted(ValidAllergens)])

\* validate_allergens: normalize the non-blank entries, raise on the first
\* entry outside valid_allergens naming it and sorted(valid_allergens)
ValidateAllergens(v) ==
  IF v = None THEN FOk(None)
  ELSE LET w == MapSeq(FilterSeq(v[1], LAMBDA x : Strip(x) # <<>>), NormalizeAllergen)
           bad == {i \in 1..Len(w) : w[i] \notin ValidAllergens}
           first == CHOOSE i \in bad : \A j \in bad : i <= j
       IN IF bad = {} THEN FOk(Some(w))
          ELSE FErr([loc |-> "allergens", type |-> "value_error",
                     text |-> "Invalid allergen", value |-> w[first],
                     valid |-> Sorted(ValidAllergens)])

\* avoid_ingredients has no validator: the list is stored as given
ValidateAvoidIngredients(v) == FOk(v)

\* Variant stopping at the first failing field
FullAnalysisRequestFailFast(n, ing, al, av) ==
  LET fn == RecipeNameField(n)
      fi == ValidateIngredients(ing)
      fa == ValidateAllergens(al)
      fv == ValidateAvoidIngredients(av)
      errs == IF fn.errs # {} THEN fn.errs
              ELSE IF fi.errs # {} THEN fi.errs
              ELSE IF fa.errs # {} THEN fa.errs ELSE fv.errs
  IN IF errs = {}
     THEN Ok([recipe_name |-> fn.val, ingredients |-> fi.val,
              allergens |-> fa.val, avoid_ingredients |-> fv.val])
     ELSE Fail(errs)

\* FullAnalysisRequest(...): every field is validated; the errors of all
\* failing fields are collected into one ValidationError
FullAnalysisRequest(n, ing, al, av) ==
  LET fn == RecipeNameField(n)
      fi == ValidateIngredients(ing)
      fa == ValidateAllergens(al)
      fv == ValidateAvoidIngredients(av)
      errs == fn.errs \cup fi.errs \cup fa.errs \cup fv.errs
  IN IF errs = {}
     THEN Ok([recipe_name |-> fn.val, ingredients |-> fi.val,
              allergens |-> fa.val, avoid_ingredients |-> fv.val])
     ELSE Fail(errs)

(***************************************************************************)
(* Python floats: finite values (in a fixed unit), nan and the infinities. *)
(* Comparisons are IEEE 754: every comparison with nan is false.          *)
(***************************************************************************)
Fl(n) == [kind |-> "num", v |-> n]
NaN == [kind |-> "nan", v |-> 0]
PosInf == [kind |-> "inf", v |-> 0]
NegInf == [kind |-> "-inf", v |-> 0]

\* x < y on floats
FLt(x, y) ==
  /\ x.kind # "nan" /\ y.kind # "nan"
  /\ CASE x.kind = "-inf" -> y.kind # "-inf"
       [] x.kind = "inf" -> FALSE
       [] OTHER -> y.kind = "inf" \/ (y.kind = "num" /\ x.v < y.v)

\* x <= y on floats (false when either side is nan)
FLe(x, y) == FLt(x, y) \/ (x.kind # "nan" /\ x = y)

(***************************************************************************)
(* Numeric Field(ge=..., le=...) constraints                               *)
(***************************************************************************)
\* Field(ge=lo): check of a supplied value (None when the field is absent)
GeField(loc, v, lo) ==
  IF v # None /\ v[1] < lo
  THEN FErr(Err(loc, "greater_than_equal", "Input should be greater than or equal to the bound"))
  ELSE FOk(v)

\* Field(None, ge=0) on an Optional[float]: pydantic-core fails unless
\* x >= ge holds, so nan fails
GeFloatField(loc, v, lo) ==
  IF v # None /\ ~FLe(lo, v[1])
  THEN FErr(Err(loc, "greater_than_equal", "Input should be greater than or equal to 0"))
  ELSE FOk(v)

\* Variant with an exclusive upper bound
BoundedFieldExclusive(loc, v, d, lo, hi) ==
  IF v = None THEN FOk(d)
  ELSE IF v[1] < lo
  THEN FErr(Err(loc, "greater_than_equal", "Input should be greater than or equal to the bound"))
  ELSE IF v[1] >= hi
  THEN FErr(Err(loc, "less_than", "Input should be less than the bound"))
  ELSE FOk(v[1])

\* Field(d, ge=lo, le=hi): absent fields take the default d (not validated)
BoundedField(loc, v, d, lo, hi) ==
  IF v = None THEN FOk(d)
  ELSE IF v[1] < lo
  THEN FErr(Err(loc, "greater_than_equal", "Input should be greater than or equal to the bound"))
  ELSE IF v[1] > hi
  THEN FErr(Err(loc, "less_than_equal", "Input should be less than or equal to the bound"))
  ELSE FOk(v[1])

(***************************************************************************)
(* RecipeSearchFilters                                                     *)
(***************************************************************************)
\* Variant rejecting max_calories == min_calories
ValidateCalorieRangeStrict(v, fmin) ==
  IF v # None /\ fmin.errs = {} /\ fmin.val # None
  THEN IF v[1] <= fmin.val[1]
       THEN FErr(Err("max_calories", "value_error", "max_calories must be greater than min_calories"))
       ELSE FOk(v)
  ELSE FOk(v)

\* validate_calorie_range: info.data holds min_calories only when that field
\* validated; the check runs when v and info.data['min_calories'] are set
ValidateCalorieRange(v, fmin) ==
  IF v # None /\ fmin.errs = {} /\ fmin.val # None
  THEN IF v[1] < fmin.val[1]
       THEN FErr(Err("max_calories", "value_error", "max_calories must be greater than min_calories"))
       ELSE FOk(v)
  ELSE FOk(v)

\* validate_protein_range (float comparison)
ValidateProteinRange(v, fmin) ==
  IF v # None /\ fmin.errs = {} /\ fmin.val # None
  THEN IF FLt(v[1], fmin.val[1])
       THEN FErr(Err("max_protein", "value_error", "max_protein must be greater than min_protein"))
       ELSE FOk(v)
  ELSE FOk(v)

\* Fields validated in declaration order; max_* validators only run when
\* the field's own constraint (ge=0) passed
RecipeSearchFilters(p) ==
  LET fminc == GeField("min_calories", p.min_calories, 0)
      gmaxc == GeField("max_calories", p.max_calories, 0)
      fmaxc == IF gmaxc.errs = {} THEN ValidateCalorieRange(p.max_calories, fminc) ELSE gmaxc
      fminp == GeFloatField("min_protein", p.min_protein, Fl(0))
      gmaxp == GeFloatField("max_protein", p.max_protein, Fl(0))
      fmaxp == IF gmaxp.errs = {} THEN ValidateProteinRange(p.max_protein, fminp) ELSE gmaxp
      errs == fminc.errs \cup fmaxc.errs \cup fminp.errs \cup fmaxp.errs
  IN IF errs = {}
     THEN Ok([cuisine |-> None, diet_type |-> None,
              min_calories |-> fminc.val, max_calories |-> fmaxc.val,
              min_protein |-> fminp.val, max_protein |-> fmaxp.val])
     ELSE Fail(errs)

(***************************************************************************)
(* QuickMealFilters                                                        *)
(***************************************************************************)
MaxPrepTimeDefault == 5
MaxPrepTimeGe == 1
MaxPrepTimeLe == 30
MaxIngredientsDefault == 3
MaxIngredientsGe == 1
MaxIngredientsLe == 10
MaxCostDefault == 100
MaxCostGe == 10
MaxCostLe == 500

QuickMealFilters(p) ==
  LET fpt == BoundedField("max_prep_time", p.max_prep_time, MaxPrepTimeDefault,
                          MaxPrepTimeGe, MaxPrepTimeLe)
      fmi == BoundedField("max_ingredients", p.max_ingredients, MaxIngredientsDefault,
                          MaxIngredientsGe, MaxIngredientsLe)
      fmc == BoundedField("max_cost", p.max_cost, MaxCostDefault, MaxCostGe, MaxCostLe)
      hf == IF p.hostel_friendly = None THEN TRUE ELSE p.hostel_friendly[1]
      errs == fpt.errs \cup fmi.errs \cup fmc.errs
  IN IF errs = {}
     THEN Ok([max_prep_time |-> fpt.val, max_ingredients |-> fmi.val,
              max_cost |-> fmc.val, hostel_friendly |-> hf,
              cuisine |-> p.cuisine, diet_type |-> p.diet_type])
     ELSE Fail(errs)

(***************************************************************************)
(* RecipeRecommendation: scores are floats, finite ones in units of 1e-4  *)
(***************************************************************************)
ScoreUnit == 10 ^ 4
ScoreGe == 0
ScoreLe == 100 * ScoreUnit

\* Variant that only rejects x > le or x < ge, letting nan through
ScoreFieldNaNPasses(loc, v) ==
  IF v = None THEN FOk(None)
  ELSE IF FLt(Fl(ScoreLe), v[1])
  THEN FErr(Err(loc, "less_than_equal", "Input should be less than or equal to 100"))
  ELSE IF FLt(v[1], Fl(ScoreGe))
  THEN FErr(Err(loc, "greater_than_equal", "Input should be greater than or equal to 0"))
  ELSE FOk(v)

\* Field(..., ge=0.0, le=100.0) on a supplied score, as pydantic-core's
\* constrained float validator: fail unless x <= le, then fail unless
\* x >= ge (nan fails the le check; allow_inf_nan defaults to True, so nan
\* and the infinities reach the comparisons)
ScoreField(loc, v) ==
  IF v = None THEN FOk(None)
  ELSE IF ~FLe(v[1], Fl(ScoreLe))
  THEN FErr(Err(loc, "less_than_equal", "Input should be less than or equal to 100"))
  ELSE IF ~FLe(Fl(ScoreGe), v[1])
  THEN FErr(Err(loc, "greater_than_equal", "Input should be greater than or equal to 0"))
  ELSE FOk(v)

RecipeRecommendation(p) ==
  LET fs == ScoreField("similarity_score", Some(p.similarity_score))
      fh == ScoreField("health_score", Some(p.health_score))
      fr == ScoreField("relevance_score", p.relevance_score)
      errs == fs.errs \cup fh.errs \cup fr.errs
  IN IF errs = {}
     THEN Ok([similarity_score |-> fs.val[1], health_score |-> fh.val[1],
              relevance_score |-> fr.val])
     ELSE Fail(errs)

(***************************************************************************)
(* Payloads                                                                *)
(***************************************************************************)
\* Bound: length of the whitespace padding around a recipe name
MaxPad == 1

\* Whitespace used in the padding of payload strings
PadChars == {32, 9, 10}  \* " ", "\t", "\n"

Pads == UNION {[1..n -> PadChars] : n \in 0..MaxPad}

\* "", "a", "a B", "a" * 200, "a" * 201
NameCores == {<<>>, <<97>>, <<97, 32, 66>>,
              Rep(97, RecipeNameMaxLength), Rep(97, RecipeNameMaxLength + 1)}

NameInputs == {p \o c \o q : p \in Pads, c \in NameCores, q \in Pads}

\* Bound: length of the list payloads
MaxList == 2

SeqsUpTo(E, m) == UNION {[1..k -> E] : k \in 0..m}

\* None, or a supplied list
OptLists(E) == {None} \cup {Some(l) : l \in SeqsUpTo(E, MaxList)}

\* "", "\n ", " rice", "egg"
IngredientElems == {<<>>, <<10, 32>>, <<32, 114, 105, 99, 101>>, <<101, 103, 103>>}

\* " ", " MIL" + KELVIN SIGN, LATIN CAPITAL I WITH DOT ABOVE
AllergenElems == {<<32>>, <<32, 77, 73, 76, 8490>>, <<304>>}

\* " butter", "sugar"
AvoidElems == {<<32, 98, 117, 116, 116, 101, 114>>, <<115, 117, 103, 97, 114>>}

\* "a", " "
ListNames == {<<97>>, <<32>>}

\* Payloads of FullAnalysisRequest: every recipe name with no lists, and
\* a valid and a blank name with every combination of lists
FullInputs ==
  {[recipe_name |-> n, ingredients |-> None, allergens |-> None,
    avoid_ingredients |-> None] : n \in NameInputs}
  \cup
  {[recipe_name |-> n, ingredients |-> i, allergens |-> a,
    avoid_ingredients |-> v] :
     n \in ListNames, i \in OptLists(IngredientElems),
     a \in OptLists(AllergenElems), v \in OptLists(AvoidElems)}

\* Bound: largest min/max value of RecipeSearchFilters payloads
MaxNum == 2

OptNums == {None} \cup {Some(x) : x \in -1..MaxNum}

\* Protein values (grams) including nan
OptFloats == {None} \cup {Some(Fl(x)) : x \in -1..MaxNum} \cup {Some(NaN)}

SearchInputs == [min_calories : OptNums, max_calories : OptNums,
                 min_protein : OptFloats, max_protein : OptFloats]

\* Values just outside, on and inside each bound, or absent
QuickInputs ==
  [max_prep_time : {None} \cup {Some(x) : x \in {MaxPrepTimeGe - 1, MaxPrepTimeGe,
                      MaxPrepTimeDefault, MaxPrepTimeLe, MaxPrepTimeLe + 1}},
   max_ingredients : {None} \cup {Some(x) : x \in {MaxIngredientsGe - 1,
                      MaxIngredientsGe, MaxIngredientsLe, MaxIngredientsLe + 1}},
   max_cost : {None} \cup {Some(x) : x \in {MaxCostGe - 1, MaxCostGe,
                      MaxCostLe, MaxCostLe + 1}},
   hostel_friendly : {None, Some(TRUE), Some(FALSE)},
   cuisine : {None, Some("Indian")},
   diet_type : {None, Some("vegetarian")}]

\* -0.1, 0.0, 50.0, 100.0, 100.0001, nan, inf, -inf
Scores == {Fl(-ScoreUnit \div 10), Fl(0), Fl(50 * ScoreUnit), Fl(ScoreLe),
           Fl(ScoreLe + 1), NaN, PosInf, NegInf}

RecommendationInputs == [similarity_score : Scores, health_score : Scores,
                         relevance_score : {None} \cup {Some(x) : x \in Scores}]

(***************************************************************************)
(* Actions                                                                 *)
(***************************************************************************)
Init ==
  /\ cls = NoModel
  /\ input = None
  /\ result = None

\* RecipeAnalysisRequest(recipe_name=n)
ConstructRecipeAnalysisRequest ==
  /\ cls = NoModel
  /\ \E n \in NameInputs :
       LET f == RecipeNameField(n) IN
       /\ cls' = "RecipeAnalysisRequest"
       /\ input' = [recipe_name |-> n]
       /\ result' = IF f.errs = {} THEN Ok([recipe_name |-> f.val]) ELSE Fail(f.errs)

\* FullAnalysisRequest(**payload)
ConstructFullAnalysisRequest ==
  /\ cls = NoModel
  /\ \E p \in FullInputs :
       /\ cls' = "FullAnalysisRequest"
       /\ input' = p
       /\ result' = FullAnalysisRequest(p.recipe_name, p.ingredients,
                                        p.allergens, p.avoid_ingredients)

\* RecipeSearchFilters(**payload)
ConstructRecipeSearchFilters ==
  /\ cls = NoModel
  /\ \E p \in SearchInputs :
       /\ cls' = "RecipeSearchFilters"
       /\ input' = p
       /\ result' = RecipeSearchFilters(p)

\* QuickMealFilters(**payload)
ConstructQuickMealFilters ==
  /\ cls = NoModel
  /\ \E p \in QuickInputs :
       /\ cls' = "QuickMealFilters"
       /\ input' = p
       /\ result' = QuickMealFilters(p)

\* RecipeRecommendation(**payload) with a valid recipe and reason
ConstructRecipeRecommendation ==
  /\ cls = NoModel
  /\ \E p \in RecommendationInputs :
       /\ cls' = "RecipeRecommendation"
       /\ input' = p
       /\ result' = RecipeRecommendation(p)

Next == \/ ConstructRecipeAnalysisRequest
        \/ ConstructFullAnalysisRequest
        \/ ConstructRecipeSearchFilters
        \/ ConstructQuickMealFilters
        \/ ConstructRecipeRecommendation

Spec == Init /\ [][Next]_vars


(***************************************************************************)
(* Properties                                                              *)
(***************************************************************************)
\* s has no leading or trailing whitespace
Trimmed(s) == s = <<>> \/ (~IsWS(s[1]) /\ ~IsWS(s[Len(s)]))

AllWS(s) == \A i \in 1..Len(s) : IsWS(s[i])

HasNonWS(s) == \E i \in 1..Len(s) : ~IsWS(s[i])

\* r is raw with its surrounding whitespace removed
StripsTo(raw, r) ==
  /\ Trimmed(r)
  /\ \E i \in 0..(Len(raw) - Len(r)) :
       /\ r = SubSeq(raw, i + 1, i + Len(r))
       /\ AllWS(SubSeq(raw, 1, i))
       /\ AllWS(SubSeq(raw, i + Len(r) + 1, Len(raw)))

NameModel == cls \in {"RecipeAnalysisRequest", "FullAnalysisRequest"}

NameErrs == {e \in result.errors : e.loc = "recipe_name"}

ErrLocs == {e.loc : e \in result.errors}

\* C1 (original claim): for RecipeAnalysisRequest and FullAnalysisRequest, a
\* recipe_name with a non-whitespace character is accepted and stored
\* stripped; an all-whitespace recipe_name fails with 'Recipe name cannot be
\* empty'.
C1_Original ==
  NameModel =>
    LET raw == input.recipe_name IN
    /\ HasNonWS(raw) =>
         /\ NameErrs = {}
         /\ result.ok => StripsTo(raw, result.obj.recipe_name)
    /\ ~HasNonWS(raw) =>
         \E e \in NameErrs : e.text = "Recipe name cannot be empty"

\* C1 (amended): for a recipe_name of 1 to 200 characters (raw length, which
\* min_length/max_length check), one with a non-whitespace character is
\* accepted and stored stripped, and an all-whitespace one fails with
\* 'Recipe name cannot be empty'.
C1_Amended ==
  NameModel =>
    LET raw == input.recipe_name IN
    (1 <= Len(raw) /\ Len(raw) <= 200) =>
      /\ HasNonWS(raw) =>
           /\ NameErrs = {}
           /\ result.ok => StripsTo(raw, result.obj.recipe_name)
      /\ ~HasNonWS(raw) =>
           /\ ~result.ok
           /\ \E e \in NameErrs : e.text = "Recipe name cannot be empty"

C1_Witness ==
  /\ cls = "FullAnalysisRequest"
  /\ result.ok
  /\ result.obj.recipe_name # input.recipe_name

\* C2: recipe_name is accepted exactly when its stripped value has 1 to 200
\* characters.
C2_Claim ==
  NameModel =>
    LET t == Strip(input.recipe_name) IN
    (NameErrs = {} <=> (1 <= Len(t) /\ Len(t) <= 200))

\* C3: an allergens list whose non-blank entries all normalize (strip, lower)
\* into the valid set is accepted as lowercase trimmed members of the set;
\* otherwise the whole construction fails with an error naming an invalid
\* value and listing the valid set sorted.
AllergensValid(raw) ==
  \A i \in 1..Len(raw) : HasNonWS(raw[i]) => Lower(Strip(raw[i])) \in ValidAllergens

IsSortedStrs(l) == \A i \in 1..(Len(l) - 1) : StrLeq(l[i], l[i + 1]) /\ l[i] # l[i + 1]

C3_Allergens ==
  (cls = "FullAnalysisRequest" /\ input.allergens # None) =>
    LET raw == input.allergens[1] IN
    /\ AllergensValid(raw) =>
         /\ "allergens" \notin ErrLocs
         /\ result.ok =>
              \A j \in 1..Len(result.obj.allergens[1]) :
                LET a == result.obj.allergens[1][j] IN
                /\ a \in ValidAllergens
                /\ a = Lower(a)
                /\ Trimmed(a)
    /\ ~AllergensValid(raw) =>
         /\ ~result.ok
         /\ \E e \in result.errors :
              /\ e.loc = "allergens"
              /\ e.value \notin ValidAllergens
              /\ \E i \in 1..Len(raw) : Lower(Strip(raw[i])) = e.value
              /\ IsSortedStrs(e.valid)
              /\ {e.valid[k] : k \in 1..Len(e.valid)} = ValidAllergens

C3_Witness ==
  /\ cls = "FullAnalysisRequest"
  /\ result.ok
  /\ input.allergens # None
  /\ \E i \in 1..Len(input.allergens[1]) : input.allergens[1][i] = <<32, 77, 73, 76, 8490>>

\* C4: with non-negative values, RecipeSearchFilters is constructed iff each
\* min/max pair with both sides present has max >= min; a pair with a side
\* absent is not checked.
PairOk(lo, hi) == lo = None \/ hi = None \/ hi[1] >= lo[1]

PairOkF(lo, hi) == lo = None \/ hi = None \/ hi[1].v >= lo[1].v

NonNeg(v) == v = None \/ v[1] >= 0

\* a finite non-negative float
NonNegF(v) == v = None \/ (v[1].kind = "num" /\ v[1].v >= 0)

C4_Range ==
  (cls = "RecipeSearchFilters"
   /\ NonNeg(input.min_calories) /\ NonNeg(input.max_calories)
   /\ NonNegF(input.min_protein) /\ NonNegF(input.max_protein)) =>
    (result.ok <=> (PairOk(input.min_calories, input.max_calories)
                    /\ PairOkF(input.min_protein, input.max_protein)))

C4_Witness ==
  /\ cls = "RecipeSearchFilters"
  /\ input.min_calories # None /\ input.max_calories # None
  /\ input.max_calories[1] < input.min_calories[1]
  /\ input.min_calories[1] >= 0 /\ input.max_calories[1] >= 0
  /\ ~result.ok

\* C5: FullAnalysisRequest keeps the non-blank ingredients, stripped, in
\* order, duplicates included; it fails with 'Ingredients list cannot be
\* empty if provided' iff none remains; absent ingredients stay None.
KeptIngredients(raw) ==
  LET idx == {i \in 1..Len(raw) : HasNonWS(raw[i])}
      pos(k) == CHOOSE i \in idx : Cardinality({j \in idx : j <= i}) = k
  IN [k \in 1..Cardinality(idx) |-> Strip(raw[pos(k)])]

C5_Ingredients ==
  cls = "FullAnalysisRequest" =>
    IF input.ingredients = None
    THEN result.ok => result.obj.ingredients = None
    ELSE LET kept == KeptIngredients(input.ingredients[1]) IN
         /\ kept = <<>> =>
              /\ ~result.ok
              /\ \E e \in result.errors :
                   e.loc = "ingredients" /\ e.text = "Ingredients list cannot be empty if provided"
         /\ kept # <<>> =>
              /\ "ingredients" \notin ErrLocs
              /\ result.ok => result.obj.ingredients = Some(kept)

C5_Witness ==
  /\ cls = "FullAnalysisRequest"
  /\ result.ok
  /\ input.ingredients # None
  /\ Len(result.obj.ingredients[1]) = 2
  /\ result.obj.ingredients[1][1] # result.obj.ingredients[1][2]
  /\ result.obj.ingredients[1] # input.ingredients[1]

\* C6: QuickMealFilters() has the defaults 5, 3, 100, true, None, None; a
\* supplied max_prep_time, max_ingredients, max_cost is accepted iff it lies
\* in [1,30], [1,10], [10,500], each field checked on its own.
InRange(v, lo, hi) == v = None \/ (lo <= v[1] /\ v[1] <= hi)

C6_QuickMeal ==
  cls = "QuickMealFilters" =>
    /\ (\A f \in DOMAIN input : input[f] = None) =>
         result = Ok([max_prep_time |-> 5, max_ingredients |-> 3, max_cost |-> 100,
                      hostel_friendly |-> TRUE, cuisine |-> None, diet_type |-> None])
    /\ ("max_prep_time" \in ErrLocs <=> ~InRange(input.max_prep_time, 1, 30))
    /\ ("max_ingredients" \in ErrLocs <=> ~InRange(input.max_ingredients, 1, 10))
    /\ ("max_cost" \in ErrLocs <=> ~InRange(input.max_cost, 10, 500))
    /\ (result.ok <=> ErrLocs = {})

C6_Witness ==
  /\ cls = "QuickMealFilters"
  /\ \A f \in DOMAIN input : input[f] = None

\* C7: RecipeRecommendation accepts similarity_score, health_score and a
\* supplied relevance_score exactly when each lies in [0,100].
ScoreIn(x) == x.kind = "num" /\ 0 <= x.v /\ x.v <= 100 * ScoreUnit

C7_Scores ==
  cls = "RecipeRecommendation" =>
    (result.ok <=> /\ ScoreIn(input.similarity_score)
                   /\ ScoreIn(input.health_score)
                   /\ (input.relevance_score = None \/ ScoreIn(input.relevance_score[1])))

C7_Witness ==
  /\ cls = "RecipeRecommendation"
  /\ input.similarity_score = Fl(100 * ScoreUnit)
  /\ input.health_score = Fl(0)
  /\ input.relevance_score = Some(NaN)
  /\ ~result.ok

\* C8: every string list of a constructed FullAnalysisRequest (ingredients,
\* allergens, avoid_ingredients) holds trimmed entries.
ListTrimmed(l) == l = None \/ \A i \in 1..Len(l[1]) : Trimmed(l[1][i])

C8_Claim ==
  (cls = "FullAnalysisRequest" /\ result.ok) =>
    /\ ListTrimmed(result.obj.ingredients)
    /\ ListTrimmed(result.obj.allergens)
    /\ ListTrimmed(result.obj.avoid_ingredients)

\* C9: a payload violating several fields fails with one error per
\* offending field and no object, for every model with validated fields.
NameOffending(n) == ~(1 <= Len(n) /\ Len(n) <= 200 /\ HasNonWS(n))

FullOffending ==
  {f \in {"recipe_name", "ingredients", "allergens", "avoid_ingredients"} :
     CASE f = "recipe_name" -> NameOffending(input.recipe_name)
       [] f = "ingredients" -> input.ingredients # None /\ KeptIngredients(input.ingredients[1]) = <<>>
       [] f = "allergens" -> input.allergens # None /\ ~AllergensValid(input.allergens[1])
       [] OTHER -> FALSE}

QuickOffending ==
  {f \in {"max_prep_time", "max_ingredients", "max_cost"} :
     CASE f = "max_prep_time" -> ~InRange(input.max_prep_time, 1, 30)
       [] f = "max_ingredients" -> ~InRange(input.max_ingredients, 1, 10)
       [] OTHER -> ~InRange(input.max_cost, 10, 500)}

\* ge=0 violated, or max below a min that passed its own check
SearchOffending ==
  LET ic == input.min_calories
      ac == input.max_calories
      ip == input.min_protein
      ap == input.max_protein
  IN {f \in {"min_calories", "max_calories", "min_protein", "max_protein"} :
        CASE f = "min_calories" -> ic # None /\ ic[1] < 0
          [] f = "max_calories" -> ac # None /\ (ac[1] < 0 \/ (ic # None /\ ic[1] >= 0 /\ ac[1] < ic[1]))
          [] f = "min_protein" -> ip # None /\ ~FLe(Fl(0), ip[1])
          [] OTHER -> ap # None /\ (~FLe(Fl(0), ap[1]) \/
                                   (ip # None /\ FLe(Fl(0), ip[1]) /\ FLt(ap[1], ip[1])))}

\* a score not within [0.0, 100.0] (nan included)
ScoreOffending(x) == ~(FLe(Fl(0), x) /\ FLe(x, Fl(100 * ScoreUnit)))

RecommendationOffending ==
  {f \in {"similarity_score", "health_score", "relevance_score"} :
     CASE f = "similarity_score" -> ScoreOffending(input.similarity_score)
       [] f = "health_score" -> ScoreOffending(input.health_score)
       [] OTHER -> input.relevance_score # None /\ ScoreOffending(input.relevance_score[1])}

C9_Aggregated ==
  cls # NoModel =>
    LET off == CASE cls = "RecipeAnalysisRequest" ->
                      IF NameOffending(input.recipe_name) THEN {"recipe_name"} ELSE {}
                 [] cls = "FullAnalysisRequest" -> FullOffending
                 [] cls = "QuickMealFilters" -> QuickOffending
                 [] cls = "RecipeSearchFilters" -> SearchOffending
                 [] OTHER -> RecommendationOffending IN
    /\ result.ok <=> off = {}
    /\ ~result.ok => result.obj = None
    /\ ErrLocs = off
    /\ \A e \in result.errors : e.text # ""

C9_Witness ==
  /\ cls = "FullAnalysisRequest"
  /\ "recipe_name" \in ErrLocs
  /\ "allergens" \in ErrLocs

\* C10: an allergens list of blank entries only is accepted as []; the
\* non-blank entries are all kept, duplicates included.
C10_BlankAllergens ==
  (cls = "FullAnalysisRequest" /\ input.allergens # None) =>
    LET raw == input.allergens[1] IN
    /\ (\A i \in 1..Len(raw) : ~HasNonWS(raw[i])) =>
         /\ "allergens" \notin ErrLocs
         /\ result.ok => result.obj.allergens = Some(<<>>)
    /\ (result.ok =>
          Len(result.obj.allergens[1]) = Cardinality({i \in 1..Len(raw) : HasNonWS(raw[i])}))

C10_Witness ==
  /\ cls = "FullAnalysisRequest"
  /\ result.ok
  /\ input.allergens # None
  /\ Len(input.allergens[1]) > 0
  /\ result.obj.allergens = Some(<<>>)

====
